---- MODULE Spec2Model ----
(***************************************************************************)
(* One trading cycle of RsiBotBehaviour.run (app/behaviours/rsi_bot.py):   *)
(* classification of the market pairs, the open-order sweep, the holdings  *)
(* reconciliation, and the decision loop with buy and sell.                *)
(*                                                                         *)
(* Volumes are exact rationals <<n, d>> in lowest terms with d > 0; prices *)
(* and trade limits are positive integers.                                 *)
(***************************************************************************)
EXTENDS Integers, Sequences, FiniteSets, TLC

\* ---------------------------------------------------------------- bounds
\* largest free balance an exchange account reports for one asset
MaxVol == 4
\* largest balance locked in open orders an account reports for one asset
MaxUsed == 1
\* best prices of an order book range over 1..MaxPrice
MaxPrice == 2
\* most recent indicator values range over 1..MaxRsi
MaxRsi == 2
\* the configured per-asset trade limit, when one is configured
TradeLimit == 1

\* ------------------------------------------------------------ the world
ExchangeList == <<"bittrex">>
Exchanges == {ExchangeList[i] : i \in 1..Len(ExchangeList)}
Symbols == {"BTC", "ETH", "USDT"}
\* the market pairs, in the natural (lexicographic) order of their identifier
PairsByName == <<"BTC/USDT", "ETH/BTC", "ETH/USDT">>
Pairs == {PairsByName[i] : i \in 1..Len(PairsByName)}

\* market_pair.split('/')
Split(market_pair) ==
    CASE market_pair = "BTC/USDT" -> <<"BTC", "USDT">>
      [] market_pair = "ETH/BTC" -> <<"ETH", "BTC">>
      [] market_pair = "ETH/USDT" -> <<"ETH", "USDT">>

\* ------------------------------------------------------------ rationals
Abs(x) == IF x < 0 THEN -x ELSE x

RECURSIVE GCD(_, _)
GCD(a, b) == IF b = 0 THEN a ELSE GCD(b, a % b)

Rat(n, d) == LET g == GCD(Abs(n), d) IN <<n \div g, d \div g>>
Zero == <<0, 1>>
FromInt(i) == <<i, 1>>
RAdd(a, b) == Rat(a[1] * b[2] + b[1] * a[2], a[2] * b[2])
RSub(a, b) == Rat(a[1] * b[2] - b[1] * a[2], a[2] * b[2])
RMul(a, p) == Rat(a[1] * p, a[2])
RDiv(a, p) == Rat(a[1], a[2] * p)
RGreater(a, b) == a[1] * b[2] > b[1] * a[2]
RMin(a, b) == IF RGreater(a, b) THEN b ELSE a

\* ------------------------------------------------------- the collaborators
\* one Holding row of the persistence collaborator
Row(free, used, total) ==
    [volume_free |-> free, volume_used |-> used, volume_total |-> total]

\* what get_account_markets reports for one asset: total = free + used
AccountBalances ==
    {Row(FromInt(b[1]), FromInt(b[2]), FromInt(b[1] + b[2])) :
        b \in {c \in {0, MaxVol} \X {0, MaxUsed} : c[2] <= c[1]}}

\* get_account_markets(exchange): the assets the account reports, with balances
AccountReports ==
    UNION {[S -> AccountBalances] : S \in SUBSET Symbols}

\* the rows a holdings table has after it was created from account reports
Keys == Exchanges \X Symbols
Ledgers ==
    UNION {[K -> AccountBalances] : K \in SUBSET Keys}

\* get_order_book(...)[side]: the prices of one side of the book, best first
BookSides == {<<>>} \cup {<<price>> : price \in 1..MaxPrice}

\* lines 163 and 246: side[0][0] if side else None; None is modelled by 0
Best(side) == IF side # <<>> THEN side[1] ELSE 0

\* analyze_rsi(...): the most recent value and the two classifications
IndicatorResults ==
    [values0 : 1..MaxRsi, is_hot : BOOLEAN, is_cold : BOOLEAN]

\* behaviour_config['buy']['trade_limits']
TradeLimitConfigs ==
    {[s \in {} |-> TradeLimit], [s \in {"ETH", "USDT"} |-> TradeLimit]}

\* market_data[exchange]: the pairs of an exchange in the order they are iterated
RECURSIVE Perms(_)
Perms(S) ==
    IF S = {} THEN {<<>>}
    ELSE UNION {{<<x>> \o p : p \in Perms(S \ {x})} : x \in S}

\* an exchange that lists two pairs with the same quote asset
MarketDatas == [Exchanges -> Perms({"BTC/USDT", "ETH/USDT"})]

\* an exchange that lists two pairs where the base asset of one is the quote
\* asset of the other
ChainMarketDatas == [Exchanges -> Perms({"BTC/USDT", "ETH/BTC"})]

\* get_open_orders()[exchange]: the orders, each older than the limit or not
OpenOrderInputs ==
    {<<>>, <<[id |-> 1, stale |-> FALSE], [id |-> 2, stale |-> TRUE]>>}

NoResult == [values0 |-> 0, is_hot |-> FALSE, is_cold |-> FALSE]
NoVisit ==
    [exchange |-> "", market_pair |-> "", result |-> NoResult,
     decision |-> "none", price |-> 0]

VARIABLES
    behaviour_config,     \* [mode, trade_limits]
    market_data,          \* exchange -> sequence of market pairs
    rsi_data,             \* exchange -> sequence of <<pair, result>> in insertion order
    rsi_sorted_pairs,     \* exchange -> sequence of pairs
    holdings_table,       \* the holdings table: <<exchange, symbol>> -> Row
    transactions,         \* the transactions table, in order of creation
    current_holdings,     \* the local of run: exchange -> symbol -> Row
    user_account_markets, \* the account reports fetched by the reconciliation
    account_calls,        \* number of get_account_markets calls in the cycle
    open_orders,          \* the open orders get_open_orders returned
    cancelled,            \* the order ids passed to cancel_order
    pc,                   \* position of run
    ei,                   \* index of the exchange being iterated
    pi,                   \* index of the pair being iterated
    exc,                  \* the exception that left run, "none" otherwise
    visit,                \* the pair evaluated by the last decision step
    pre_table,            \* the holdings table before the last decision step
    start_table,          \* the holdings table when the decision loop is entered
    reconciled            \* the branch lines 99-107 took: "created", "updated", "kept"

vars == <<behaviour_config, market_data, rsi_data, rsi_sorted_pairs,
          holdings_table, transactions, current_holdings,
          user_account_markets, account_calls, open_orders, cancelled,
          pc, ei, pi, exc, visit, pre_table, start_table, reconciled>>

Live == behaviour_config.mode = "live"

\* ------------------------------------------------------------ __get_holdings
__get_holdings(table) ==
    LET exs == {k[1] : k \in DOMAIN table} IN
    [e \in exs |->
        [s \in {k[2] : k \in {kk \in DOMAIN table : kk[1] = e}} |-> table[<<e, s>>]]]

\* db_handler.create_holding / update_holding on one (exchange, symbol)
PutRow(table, key, row) ==
    [k \in DOMAIN table \cup {key} |-> IF k = key THEN row ELSE table[k]]

\* an exception leaves run: its locals are gone
Raise(exception) ==
    /\ pc' = "raised"
    /\ exc' = exception
    /\ rsi_data' = [e \in Exchanges |-> <<>>]
    /\ rsi_sorted_pairs' = [e \in Exchanges |-> <<>>]
    /\ current_holdings' = [e \in {} |-> 0]
    /\ open_orders' = <<>>
    /\ ei' = 0
    /\ pi' = 0

\* the state when run is called with one of the market lists markets
Start(markets) ==
    /\ behaviour_config \in [mode : {"live", "backtest"}, trade_limits : TradeLimitConfigs]
    /\ market_data \in markets
    /\ rsi_data = [e \in Exchanges |-> <<>>]
    /\ rsi_sorted_pairs = [e \in Exchanges |-> <<>>]
    /\ holdings_table \in Ledgers
    /\ transactions = <<>>
    /\ current_holdings = [e \in {} |-> 0]
    /\ user_account_markets = [e \in {} |-> 0]
    /\ account_calls = 0
    /\ open_orders = <<>>
    /\ cancelled = {}
    /\ pc = "classify"
    /\ ei = 1
    /\ pi = 1
    /\ exc = "none"
    /\ visit = NoVisit
    /\ pre_table = holdings_table
    /\ start_table = holdings_table
    /\ reconciled = "not yet"

Init == Start(MarketDatas)

InitChain == Start(ChainMarketDatas)

\* ------------------------------------------------------------ classification
\* an insertion that puts an entry before the entries of equal value
RECURSIVE InsertByKeyUnstable(_, _)
InsertByKeyUnstable(sorted, entry) ==
    IF sorted = <<>> THEN <<entry>>
    ELSE IF entry[2].values0 <= sorted[Len(sorted)][2].values0
         THEN InsertByKeyUnstable(SubSeq(sorted, 1, Len(sorted) - 1), entry)
                  \o <<sorted[Len(sorted)]>>
         ELSE Append(sorted, entry)

\* sorted(rsi_data[exchange], key=values[0]): a stable sort of the dict's keys
RECURSIVE InsertByKey(_, _)
InsertByKey(sorted, entry) ==
    IF sorted = <<>> THEN <<entry>>
    ELSE IF entry[2].values0 < sorted[Len(sorted)][2].values0
         THEN InsertByKey(SubSeq(sorted, 1, Len(sorted) - 1), entry)
                  \o <<sorted[Len(sorted)]>>
         ELSE Append(sorted, entry)

RECURSIVE SortEntries(_)
SortEntries(entries) ==
    IF entries = <<>> THEN <<>>
    ELSE InsertByKey(SortEntries(SubSeq(entries, 1, Len(entries) - 1)),
                     entries[Len(entries)])

SortedPairs(entries) ==
    LET s == SortEntries(entries) IN [i \in 1..Len(s) |-> s[i][1]]

\* rsi_data[exchange][market_pair]
ResultOf(exchange, market_pair) ==
    LET entries == rsi_data[exchange]
        i == CHOOSE j \in 1..Len(entries) : entries[j][1] = market_pair
    IN entries[i][2]

\* lines 53-65: one pair is classified and stored
ClassifyPair ==
    /\ pc = "classify"
    /\ pi <= Len(market_data[ExchangeList[ei]])
    /\ \E result \in IndicatorResults :
          rsi_data' = [rsi_data EXCEPT ![ExchangeList[ei]] =
                          Append(@, <<market_data[ExchangeList[ei]][pi], result>>)]
    /\ pi' = pi + 1
    /\ UNCHANGED <<behaviour_config, market_data, rsi_sorted_pairs, holdings_table,
                   transactions, current_holdings, user_account_markets,
                   account_calls, open_orders, cancelled, pc, ei, exc, visit,
                   pre_table, start_table, reconciled>>

\* the exception is not caught and leaves run
ClassifyNetworkErrorAborts ==
    /\ pc = "classify"
    /\ pi <= Len(market_data[ExchangeList[ei]])
    /\ Raise("NetworkError")
    /\ UNCHANGED <<behaviour_config, market_data, holdings_table, transactions,
                   user_account_markets, account_calls, cancelled, visit,
                   pre_table, start_table, reconciled>>

\* lines 67-73: ccxt.NetworkError, the pair is skipped
ClassifyNetworkError ==
    /\ pc = "classify"
    /\ pi <= Len(market_data[ExchangeList[ei]])
    /\ pi' = pi + 1
    /\ UNCHANGED <<behaviour_config, market_data, rsi_data, rsi_sorted_pairs,
                   holdings_table, transactions, current_holdings,
                   user_account_markets, account_calls, open_orders, cancelled,
                   pc, ei, exc, visit, pre_table, start_table, reconciled>>

\* lines 75-78: the classified pairs of the exchange are sorted
SortPairs ==
    /\ pc = "classify"
    /\ pi > Len(market_data[ExchangeList[ei]])
    /\ rsi_sorted_pairs' = [rsi_sorted_pairs EXCEPT ![ExchangeList[ei]] =
                               SortedPairs(rsi_data[ExchangeList[ei]])]
    /\ pi' = 1
    /\ IF ei < Len(ExchangeList)
       THEN ei' = ei + 1 /\ pc' = pc
       ELSE ei' = 1 /\ pc' = "orders"
    /\ UNCHANGED <<behaviour_config, market_data, rsi_data, holdings_table,
                   transactions, current_holdings, user_account_markets,
                   account_calls, open_orders, cancelled, exc, visit, pre_table, start_table, reconciled>>

\* ------------------------------------------------------------ the order sweep
\* line 93, time_to_hold > order_time: the left side is a datetime, the right
\* side the string strftime('%c') returned, and Python raises TypeError for
\* an ordering comparison of the two
TimeToHoldGreater(order) == "TypeError"

\* lines 82-97: the loop over the open orders; the orders cancelled and the
\* exception raised, "none" when the loop ends
RECURSIVE SweepFrom(_, _, _)
SweepFrom(orders, i, done) ==
    IF i > Len(orders) THEN [cancelled |-> done, exc |-> "none"]
    ELSE IF Live
         THEN LET older == TimeToHoldGreater(orders[i]) IN
              IF older = "TypeError" THEN [cancelled |-> done, exc |-> "TypeError"]
              ELSE SweepFrom(orders, i + 1,
                             IF older = TRUE THEN done \cup {orders[i].id} ELSE done)
         ELSE SweepFrom(orders, i + 1, done)

\* lines 80-97
SweepOrders ==
    /\ pc = "orders"
    /\ \E orders \in OpenOrderInputs :
          LET r == SweepFrom(orders, 1, {}) IN
          /\ cancelled' = r.cancelled
          /\ IF r.exc = "none"
             THEN /\ open_orders' = orders
                  /\ pc' = "holdings"
                  /\ UNCHANGED <<rsi_data, rsi_sorted_pairs, current_holdings,
                                 ei, pi, exc>>
             ELSE Raise(r.exc)
    /\ UNCHANGED <<behaviour_config, market_data, holdings_table, transactions,
                   user_account_markets, account_calls, visit, pre_table, start_table, reconciled>>

\* ------------------------------------------------------------ reconciliation
\* the position of the decision loop at or after (e, p): <<0, 0>> past the end
RECURSIVE NextPos(_, _)
NextPos(e, p) ==
    IF e > Len(ExchangeList) THEN <<0, 0>>
    ELSE IF p <= Len(rsi_sorted_pairs[ExchangeList[e]]) THEN <<e, p>>
    ELSE NextPos(e + 1, 1)

\* lines 109-110: the decision loop is entered at its first pair
EnterLoop ==
    LET pos == NextPos(1, 1) IN
    /\ ei' = pos[1]
    /\ pi' = pos[2]
    /\ pc' = IF pos[1] = 0 THEN "done" ELSE "decide"

\* the total of the new row is the free volume the account reports
__create_holdingsFreeAsTotal(table, reports) ==
    [k \in DOMAIN table \cup {kk \in Keys : kk[2] \in DOMAIN reports[kk[1]]} |->
        IF k[2] \in DOMAIN reports[k[1]]
        THEN Row(reports[k[1]][k[2]].volume_free,
                 reports[k[1]][k[2]].volume_used,
                 reports[k[1]][k[2]].volume_free)
        ELSE table[k]]

\* lines 328-342: one row per asset of every exchange's account report
__create_holdings(table, reports) ==
    [k \in DOMAIN table \cup {kk \in Keys : kk[2] \in DOMAIN reports[kk[1]]} |->
        IF k[2] \in DOMAIN reports[k[1]]
        THEN Row(reports[k[1]][k[2]].volume_free,
                 reports[k[1]][k[2]].volume_used,
                 reports[k[1]][k[2]].volume_total)
        ELSE table[k]]

\* lines 345-358 on the rows rows: each is overwritten with the report
__update_holdings(table, reports, rows) ==
    [k \in DOMAIN table |->
        IF k \in rows
        THEN Row(reports[k[1]][k[2]].volume_free,
                 reports[k[1]][k[2]].volume_used,
                 reports[k[1]][k[2]].volume_total)
        ELSE table[k]]

\* the account reports __update_holdings fetches, one for each exchange that has
\* a row; of a report only the assets of the rows of table are read
ResyncReports(table) ==
    LET exs == {k[1] : k \in DOMAIN table}
        reports == [exs -> AccountReports]
    IN {r \in reports :
           \A e \in exs : \A s \in DOMAIN r[e] : <<e, s>> \in DOMAIN table}

\* lines 99-103: the holdings table has no rows
Bootstrap ==
    /\ pc = "holdings"
    /\ reconciled' = "created"
    /\ DOMAIN __get_holdings(holdings_table) = {}
    /\ \E reports \in [Exchanges -> AccountReports] :
          /\ holdings_table' = __create_holdings(holdings_table, reports)
          /\ user_account_markets' = reports
    /\ account_calls' = Cardinality(Exchanges)
    /\ current_holdings' = __get_holdings(holdings_table')
    /\ pre_table' = holdings_table'
    /\ start_table' = holdings_table'
    /\ open_orders' = <<>>
    /\ EnterLoop
    /\ UNCHANGED <<behaviour_config, market_data, rsi_data, rsi_sorted_pairs,
                   transactions, cancelled, exc, visit>>

\* lines 104-107, live mode: every row is overwritten with the account report
Resync ==
    /\ pc = "holdings"
    /\ reconciled' = "updated"
    /\ DOMAIN __get_holdings(holdings_table) # {}
    /\ Live
    /\ \E reports \in ResyncReports(holdings_table) :
          /\ \A k \in DOMAIN holdings_table : k[2] \in DOMAIN reports[k[1]]
          /\ holdings_table' =
                 __update_holdings(holdings_table, reports, DOMAIN holdings_table)
          /\ user_account_markets' = reports
          /\ account_calls' = Cardinality(DOMAIN reports)
    /\ current_holdings' = __get_holdings(holdings_table')
    /\ pre_table' = holdings_table'
    /\ start_table' = holdings_table'
    /\ open_orders' = <<>>
    /\ EnterLoop
    /\ UNCHANGED <<behaviour_config, market_data, rsi_data, rsi_sorted_pairs,
                   transactions, cancelled, exc, visit>>

\* lines 354-356, live mode: the report lacks the asset of a row, KeyError;
\* the rows iterated before it are already overwritten
ResyncKeyError ==
    /\ pc = "holdings"
    /\ reconciled' = "updated"
    /\ DOMAIN __get_holdings(holdings_table) # {}
    /\ Live
    /\ \E reports \in ResyncReports(holdings_table) :
          LET present == {k \in DOMAIN holdings_table : k[2] \in DOMAIN reports[k[1]]} IN
          /\ present # DOMAIN holdings_table
          /\ \E rows \in SUBSET present :
                /\ holdings_table' = __update_holdings(holdings_table, reports, rows)
                /\ user_account_markets' = reports
                /\ account_calls' = Cardinality(DOMAIN reports)
    /\ Raise("KeyError")
    /\ pre_table' = holdings_table'
    /\ start_table' = holdings_table'
    /\ UNCHANGED <<behaviour_config, market_data, transactions, cancelled, visit>>

\* the mode is not looked at: the rows are overwritten with the account report
KeepHoldingsResyncs ==
    /\ pc = "holdings"
    /\ reconciled' = "kept"
    /\ DOMAIN __get_holdings(holdings_table) # {}
    /\ ~Live
    /\ \E reports \in ResyncReports(holdings_table) :
          /\ \A k \in DOMAIN holdings_table : k[2] \in DOMAIN reports[k[1]]
          /\ holdings_table' =
                 __update_holdings(holdings_table, reports, DOMAIN holdings_table)
          /\ user_account_markets' = reports
          /\ account_calls' = Cardinality(DOMAIN reports)
    /\ current_holdings' = __get_holdings(holdings_table')
    /\ pre_table' = holdings_table'
    /\ start_table' = holdings_table'
    /\ open_orders' = <<>>
    /\ EnterLoop
    /\ UNCHANGED <<behaviour_config, market_data, rsi_data, rsi_sorted_pairs,
                   transactions, cancelled, exc, visit>>

\* lines 104-105, any other mode: the holdings table is left as it is
KeepHoldings ==
    /\ pc = "holdings"
    /\ reconciled' = "kept"
    /\ DOMAIN __get_holdings(holdings_table) # {}
    /\ ~Live
    /\ current_holdings' = __get_holdings(holdings_table)
    /\ open_orders' = <<>>
    /\ EnterLoop
    /\ UNCHANGED <<behaviour_config, market_data, rsi_data, rsi_sorted_pairs,
                   holdings_table, transactions, user_account_markets,
                   account_calls, cancelled, exc, visit, pre_table, start_table>>

\* ------------------------------------------------------------ the decision loop
\* the holding of the base asset is not looked at
HotBranchRebuys(exchange, base_symbol, quote_symbol, holdings) ==
    IF exchange \notin DOMAIN holdings THEN "KeyError"
    ELSE IF quote_symbol \notin DOMAIN holdings[exchange] THEN "KeyError"
    ELSE IF ~(holdings[exchange][quote_symbol].volume_total = Zero)
         THEN "buy"
         ELSE "none"

\* lines 119-129: the guard of buy; "KeyError" when the snapshot has no entry
\* for the exchange or for the quote asset
HotBranch(exchange, base_symbol, quote_symbol, holdings) ==
    IF exchange \notin DOMAIN holdings THEN "KeyError"
    ELSE IF quote_symbol \notin DOMAIN holdings[exchange] THEN "KeyError"
    ELSE IF ~(holdings[exchange][quote_symbol].volume_total = Zero)
         THEN IF \/ base_symbol \notin DOMAIN holdings[exchange]
                 \/ holdings[exchange][base_symbol].volume_total = Zero
              THEN "buy"
              ELSE "none"
         ELSE "none"

\* the free volume of the base asset is not looked at
ColdBranchAnyVolume(exchange, base_symbol, holdings) ==
    IF exchange \notin DOMAIN holdings THEN "KeyError"
    ELSE IF base_symbol \in DOMAIN holdings[exchange] THEN "sell"
    ELSE "none"

\* lines 137-146: the guard of sell; "KeyError" when the snapshot has no entry
\* for the exchange
ColdBranch(exchange, base_symbol, holdings) ==
    IF exchange \notin DOMAIN holdings THEN "KeyError"
    ELSE IF /\ base_symbol \in DOMAIN holdings[exchange]
            /\ ~(holdings[exchange][base_symbol].volume_free = Zero)
         THEN "sell"
         ELSE "none"

\* the cold test is also made for a hot pair that was not bought
DecisionFallsThrough(exchange, market_pair, holdings) ==
    LET base_symbol == Split(market_pair)[1]
        quote_symbol == Split(market_pair)[2]
        result == ResultOf(exchange, market_pair)
    IN
    IF result.is_hot
          /\ HotBranch(exchange, base_symbol, quote_symbol, holdings) # "none"
    THEN HotBranch(exchange, base_symbol, quote_symbol, holdings)
    ELSE IF result.is_cold
    THEN ColdBranch(exchange, base_symbol, holdings)
    ELSE "none"

\* lines 113 and 131: if is_hot ... elif is_cold ...
Decision(exchange, market_pair, holdings) ==
    LET base_symbol == Split(market_pair)[1]
        quote_symbol == Split(market_pair)[2]
        result == ResultOf(exchange, market_pair)
    IN
    IF result.is_hot
    THEN HotBranch(exchange, base_symbol, quote_symbol, holdings)
    ELSE IF result.is_cold
    THEN ColdBranch(exchange, base_symbol, holdings)
    ELSE "none"

\* the trade limit is not applied
CappedIgnoresLimit(volume, symbol) == volume

\* lines 170-173 and 253-256: the volume is capped by the trade limit of symbol
Capped(volume, symbol) ==
    LET trade_limits == behaviour_config.trade_limits IN
    IF symbol \in DOMAIN trade_limits
    THEN IF RGreater(volume, FromInt(trade_limits[symbol]))
         THEN FromInt(trade_limits[symbol])
         ELSE volume
    ELSE volume

\* lines 217-227 and 288-298
Payload(exchange, base_symbol, quote_symbol, action, base_value, quote_value, base_volume, quote_volume) ==
    [exchange |-> exchange, base_symbol |-> base_symbol,
     quote_symbol |-> quote_symbol, action |-> action,
     base_value |-> base_value, quote_value |-> quote_value, fee_rate |-> 0,
     base_volume |-> base_volume, quote_volume |-> quote_volume]

\* the total of the row is not computed again
RefreshedKeepsTotal(row, free) ==
    Row(free, row.volume_used, row.volume_total)

\* the row is rebuilt from the free volume alone
RefreshedDropsUsed(row, free) ==
    Row(free, Zero, free)

\* lines 190-192, 211-213, 271-273, 283-285: a row after its free volume changed
Refreshed(row, free) ==
    Row(free, row.volume_used, RAdd(free, row.volume_used))

\* the first entry of the empty side is read: IndexError
NoTradeRaises(table, log) == [table |-> table, log |-> log, exc |-> "IndexError"]

\* lines 164-165 and 247-248: the early return, nothing is written
NoTrade(table, log) == [table |-> table, log |-> log, exc |-> "none"]

\* the bid is the total volume of the quote asset, not its free volume
buyBidsTotal(base_symbol, quote_symbol, exchange, holdings, table, log, base_ask) ==
    IF base_ask = 0 THEN NoTrade(table, log)
    ELSE
    LET quote_bid == Capped(holdings[exchange][quote_symbol].volume_total, quote_symbol)
        base_volume == RDiv(quote_bid, base_ask)
        base_key == <<exchange, base_symbol>>
        quote_key == <<exchange, quote_symbol>>
        with_base ==
            IF base_key \in DOMAIN table
            THEN PutRow(table, base_key,
                        Refreshed(table[base_key],
                                  RAdd(table[base_key].volume_free, base_volume)))
            ELSE PutRow(table, base_key, Row(base_volume, Zero, base_volume))
        purchase_payload ==
            Payload(exchange, base_symbol, quote_symbol, "buy_base",
                    base_ask, quote_bid, base_volume, quote_bid)
    IN
    IF Live
    THEN [table |-> table, log |-> Append(log, purchase_payload), exc |-> "none"]
    ELSE IF quote_key \notin DOMAIN with_base
    THEN [table |-> with_base, log |-> log, exc |-> "NoResultFound"]
    ELSE [table |-> PutRow(with_base, quote_key,
                           Refreshed(with_base[quote_key],
                                     RSub(with_base[quote_key].volume_free, quote_bid))),
          log |-> Append(log, purchase_payload),
          exc |-> "none"]

\* lines 151-231; base_ask is the best ask of the order book
buy(base_symbol, quote_symbol, exchange, holdings, table, log, base_ask) ==
    IF base_ask = 0 THEN NoTrade(table, log)
    ELSE
    LET quote_bid == Capped(holdings[exchange][quote_symbol].volume_free, quote_symbol)
        base_volume == RDiv(quote_bid, base_ask)
        base_key == <<exchange, base_symbol>>
        quote_key == <<exchange, quote_symbol>>
        with_base ==
            IF base_key \in DOMAIN table
            THEN PutRow(table, base_key,
                        Refreshed(table[base_key],
                                  RAdd(table[base_key].volume_free, base_volume)))
            ELSE PutRow(table, base_key, Row(base_volume, Zero, base_volume))
        purchase_payload ==
            Payload(exchange, base_symbol, quote_symbol, "buy_base",
                    base_ask, quote_bid, base_volume, quote_bid)
    IN
    IF Live
    THEN [table |-> table, log |-> Append(log, purchase_payload), exc |-> "none"]
    ELSE IF quote_key \notin DOMAIN with_base
    THEN [table |-> with_base, log |-> log, exc |-> "NoResultFound"]
    ELSE [table |-> PutRow(with_base, quote_key,
                           Refreshed(with_base[quote_key],
                                     RSub(with_base[quote_key].volume_free, quote_bid))),
          log |-> Append(log, purchase_payload),
          exc |-> "none"]

\* lines 234-302; bid is the best bid of the order book
sell(base_symbol, quote_symbol, exchange, holdings, table, log, bid) ==
    IF bid = 0 THEN NoTrade(table, log)
    ELSE
    LET base_bid == Capped(holdings[exchange][base_symbol].volume_free, base_symbol)
        quote_volume == RMul(base_bid, bid)
        base_key == <<exchange, base_symbol>>
        quote_key == <<exchange, quote_symbol>>
        with_base ==
            PutRow(table, base_key,
                   Refreshed(table[base_key],
                             RSub(table[base_key].volume_free, base_bid)))
        sale_payload ==
            Payload(exchange, base_symbol, quote_symbol, "sell_base",
                    bid, quote_volume, base_bid, quote_volume)
    IN
    IF Live
    THEN [table |-> table, log |-> Append(log, sale_payload), exc |-> "none"]
    ELSE IF base_key \notin DOMAIN table
    THEN [table |-> table, log |-> log, exc |-> "NoResultFound"]
    ELSE IF quote_key \notin DOMAIN with_base
    THEN [table |-> with_base, log |-> log, exc |-> "NoResultFound"]
    ELSE [table |-> PutRow(with_base, quote_key,
                           Refreshed(with_base[quote_key],
                                     RAdd(with_base[quote_key].volume_free, quote_volume))),
          log |-> Append(log, sale_payload),
          exc |-> "none"]

\* the pair the decision loop is at
CurExchange == ExchangeList[ei]
CurPair == rsi_sorted_pairs[CurExchange][pi]

\* the loop moves to the next pair, or run returns
Advance ==
    LET pos == NextPos(ei, pi + 1) IN
    /\ ei' = pos[1]
    /\ pi' = pos[2]
    /\ pc' = IF pos[1] = 0 THEN "done" ELSE "decide"

\* the snapshot taken before the trade is kept
ReadAgainStale(table) == current_holdings

\* lines 129 and 146: current_holdings = self.__get_holdings()
ReadAgain(table) == __get_holdings(table)

\* the trade of a decision step took effect: the snapshot is read again and the
\* loop goes on, or the exception leaves run
Trade(r, decision, price) ==
    /\ holdings_table' = r.table
    /\ transactions' = r.log
    /\ pre_table' = holdings_table
    /\ UNCHANGED start_table
    /\ visit' = [exchange |-> CurExchange, market_pair |-> CurPair,
                 result |-> ResultOf(CurExchange, CurPair),
                 decision |-> decision, price |-> price]
    /\ IF r.exc = "none"
       THEN /\ current_holdings' = ReadAgain(holdings_table')
            /\ Advance
            /\ UNCHANGED <<rsi_data, rsi_sorted_pairs, open_orders, exc>>
       ELSE Raise(r.exc)
    /\ UNCHANGED <<behaviour_config, market_data, user_account_markets,
                   account_calls, cancelled, reconciled>>

\* lines 119-129: a hot pair is bought
VisitBuy ==
    /\ pc = "decide"
    /\ Decision(CurExchange, CurPair, current_holdings) = "buy"
    /\ \E asks \in BookSides :
          Trade(buy(Split(CurPair)[1], Split(CurPair)[2], CurExchange,
                    current_holdings, holdings_table, transactions, Best(asks)),
                "buy", Best(asks))

\* lines 137-146: a cold pair is sold
VisitSell ==
    /\ pc = "decide"
    /\ Decision(CurExchange, CurPair, current_holdings) = "sell"
    /\ \E bids \in BookSides :
          Trade(sell(Split(CurPair)[1], Split(CurPair)[2], CurExchange,
                     current_holdings, holdings_table, transactions, Best(bids)),
                "sell", Best(bids))

\* lines 113-146: neither guard holds, the pair is passed over
VisitHold ==
    /\ pc = "decide"
    /\ Decision(CurExchange, CurPair, current_holdings) = "none"
    /\ pre_table' = holdings_table
    /\ UNCHANGED start_table
    /\ visit' = [exchange |-> CurExchange, market_pair |-> CurPair,
                 result |-> ResultOf(CurExchange, CurPair),
                 decision |-> "none", price |-> 0]
    /\ Advance
    /\ UNCHANGED <<behaviour_config, market_data, rsi_data, rsi_sorted_pairs,
                   holdings_table, transactions, current_holdings,
                   user_account_markets, account_calls, open_orders, cancelled,
                   exc, reconciled>>

\* lines 119 and 137: the snapshot has no entry for the exchange or the quote
\* asset, KeyError
VisitKeyError ==
    /\ pc = "decide"
    /\ Decision(CurExchange, CurPair, current_holdings) = "KeyError"
    /\ pre_table' = holdings_table
    /\ UNCHANGED start_table
    /\ visit' = [exchange |-> CurExchange, market_pair |-> CurPair,
                 result |-> ResultOf(CurExchange, CurPair),
                 decision |-> "none", price |-> 0]
    /\ Raise("KeyError")
    /\ UNCHANGED <<behaviour_config, market_data, holdings_table, transactions,
                   user_account_markets, account_calls, cancelled, reconciled>>

Next ==
    \/ ClassifyPair
    \/ ClassifyNetworkError
    \/ SortPairs
    \/ SweepOrders
    \/ Bootstrap
    \/ Resync
    \/ ResyncKeyError
    \/ KeepHoldings
    \/ VisitBuy
    \/ VisitSell
    \/ VisitHold
    \/ VisitKeyError

Spec == Init /\ [][Next]_vars

SpecChain == InitChain /\ [][Next]_vars

TypeOK ==
    /\ pc \in {"classify", "orders", "holdings", "decide", "done", "raised"}
    /\ exc \in {"none", "TypeError", "KeyError", "NoResultFound"}

\* ================================================================ properties
Visited == visit # NoVisit
BaseKey == <<visit.exchange, Split(visit.market_pair)[1]>>
QuoteKey == <<visit.exchange, Split(visit.market_pair)[2]>>
LastTransaction == transactions[Len(transactions)]

\* a decision step of run in simulation mode that calls buy or sell and finds
\* a price on the order book
SimTradeStep(decision) ==
    /\ pc = "decide"
    /\ ~Live
    /\ visit'.decision = decision
    /\ visit'.price # 0

\* C1: every Holding has volume_total = volume_free + volume_used, in every
\* state of a cycle: after the bootstrap, after the live re-sync and after
\* every buy and sell.
C1_TotalIsFreePlusUsed ==
    \A k \in DOMAIN holdings_table :
        holdings_table[k].volume_total =
            RAdd(holdings_table[k].volume_free, holdings_table[k].volume_used)

\* C1 witness: a simulated sell has changed the table the bootstrap created.
C1_Witness ==
    /\ reconciled = "created"
    /\ ~Live
    /\ visit.decision = "sell"
    /\ visit.price # 0
    /\ exc = "none"
    /\ holdings_table # pre_table

\* C2 as claimed: a buy or sell in simulation mode either updates both of its
\* Holdings and appends one Transaction, or changes no Holding and appends no
\* Transaction.
C2_NoPartialTrade ==
    [][(pc = "decide" /\ ~Live /\ visit'.decision \in {"buy", "sell"}) =>
        LET base_key == <<visit'.exchange, Split(visit'.market_pair)[1]>>
            quote_key == <<visit'.exchange, Split(visit'.market_pair)[2]>>
        IN \/ /\ base_key \in DOMAIN holdings_table'
              /\ quote_key \in DOMAIN holdings_table'
              /\ Len(transactions') = Len(transactions) + 1
              /\ exc' = "none"
           \/ /\ holdings_table' = holdings_table
              /\ transactions' = transactions]_vars

\* the BUY condition of the decision rules: the pair is hot, the quote asset
\* has a Holding with non-zero free volume, and the base asset has no Holding
\* or one with total volume zero
BuyCondition ==
    /\ visit.result.is_hot
    /\ QuoteKey \in DOMAIN pre_table
    /\ pre_table[QuoteKey].volume_free # Zero
    /\ \/ BaseKey \notin DOMAIN pre_table
       \/ pre_table[BaseKey].volume_total = Zero

\* the SELL condition of the decision rules: the pair is cold and the base
\* asset has a Holding with non-zero free volume
SellCondition ==
    /\ visit.result.is_cold
    /\ BaseKey \in DOMAIN pre_table
    /\ pre_table[BaseKey].volume_free # Zero

\* C3 as claimed: buy is invoked for a pair if and only if the pair is hot,
\* the quote Holding has non-zero volume_free, and the base asset is absent
\* from the ledger or has volume_total zero.
C3_BuyIffBuyCondition ==
    Visited => (visit.decision = "buy" <=> BuyCondition)

\* C4 as claimed: when the BUY condition does not hold for a pair, sell is
\* invoked if and only if the pair is cold and the base asset has a Holding
\* with non-zero volume_free (stated for the pairs run evaluates without an
\* exception).
C4_SellIffColdWhenNoBuy ==
    (Visited /\ exc = "none" /\ ~BuyCondition) =>
        (visit.decision = "sell" <=> SellCondition)

\* C4 amended: when the pair is not classified hot, sell is invoked if and
\* only if the pair is cold and the base asset has a Holding with non-zero
\* volume_free.
C4_SellIffColdWhenNotHot ==
    (Visited /\ ~visit.result.is_hot) => (visit.decision = "sell" <=> SellCondition)

\* C4 witness: a pair that is cold and not hot has been sold.
C4_Witness ==
    /\ Visited
    /\ ~visit.result.is_hot
    /\ visit.decision = "sell"
    /\ visit.price # 0
    /\ exc = "none"

\* C5: the snapshot the decision loop evaluates the next pair with, for the
\* guard and for the traded volume, is the holdings table as the trades on
\* the pairs before it have left it.
C5_SnapshotIsLedger ==
    pc = "decide" =>
        \A e \in Exchanges : \A s \in Symbols :
            /\ <<e, s>> \in DOMAIN holdings_table <=>
                   (e \in DOMAIN current_holdings /\ s \in DOMAIN current_holdings[e])
            /\ <<e, s>> \in DOMAIN holdings_table =>
                   current_holdings[e][s] = holdings_table[<<e, s>>]

\* C5 witness: in simulation mode without trade limits one buy has spent the
\* whole quote balance, and the next hot pair with the same quote asset, whose
\* base asset is not held, was not bought.
C5_Witness ==
    /\ ~Live
    /\ DOMAIN behaviour_config.trade_limits = {}
    /\ Len(transactions) = 1
    /\ transactions[1].action = "buy_base"
    /\ transactions[1].quote_value = FromInt(MaxVol)
    /\ Visited
    /\ visit.result.is_hot
    /\ Split(visit.market_pair)[2] = transactions[1].quote_symbol
    /\ Split(visit.market_pair)[1] # transactions[1].base_symbol
    /\ BaseKey \notin DOMAIN pre_table
    /\ pre_table[QuoteKey].volume_free = Zero
    /\ visit.decision = "none"
    /\ exc = "none"

\* the place of a pair in the natural order of the pair identifiers
NameRank(market_pair) ==
    CHOOSE i \in 1..Len(PairsByName) : PairsByName[i] = market_pair

\* the place of a pair in the order the market data of its exchange is iterated
MarketRank(exchange, market_pair) ==
    CHOOSE i \in 1..Len(market_data[exchange]) : market_data[exchange][i] = market_pair

\* the decision loop has evaluated a pair and is at the next pair of the same
\* exchange
BetweenTwoPairs ==
    /\ pc = "decide"
    /\ Visited
    /\ visit.exchange = CurExchange

\* C6 as claimed: the pairs of an exchange are visited in ascending order of
\* their most recent indicator value, pairs of equal value in the natural order
\* of the pair identifier.
C6_AscendingTiesByName ==
    BetweenTwoPairs =>
        \/ visit.result.values0 < ResultOf(CurExchange, CurPair).values0
        \/ /\ visit.result.values0 = ResultOf(CurExchange, CurPair).values0
           /\ NameRank(visit.market_pair) < NameRank(CurPair)

\* C6 amended: the pairs of an exchange are visited in ascending order of
\* their most recent indicator value, pairs of equal value in the order in
\* which the market data of the exchange lists them.
C6_AscendingTiesByMarketOrder ==
    BetweenTwoPairs =>
        \/ visit.result.values0 < ResultOf(CurExchange, CurPair).values0
        \/ /\ visit.result.values0 = ResultOf(CurExchange, CurPair).values0
           /\ MarketRank(visit.exchange, visit.market_pair)
                  < MarketRank(CurExchange, CurPair)

\* C6 witness: two pairs of equal value are visited against the order of their
\* identifiers.
C6_Witness ==
    /\ BetweenTwoPairs
    /\ visit.result.values0 = ResultOf(CurExchange, CurPair).values0
    /\ NameRank(visit.market_pair) > NameRank(CurPair)

\* C7: a buy in simulation mode that finds an ask spends quote_value = the
\* free quote volume, capped by the trade limit of the quote asset if one is
\* configured, buys base_volume = quote_value / ask, adds base_volume to the
\* free and total volume of the base Holding (created with used 0 if absent),
\* takes quote_value from the free and total volume of the quote Holding, and
\* appends one Transaction buy_base with base_value = ask, quote_value and
\* quote_volume = the amount spent, and fee_rate 0.
C7_SimBuy ==
    [][SimTradeStep("buy") =>
        LET exchange == visit'.exchange
            base_symbol == Split(visit'.market_pair)[1]
            quote_symbol == Split(visit'.market_pair)[2]
            base_key == <<exchange, base_symbol>>
            quote_key == <<exchange, quote_symbol>>
            ask == visit'.price
            limits == behaviour_config.trade_limits
            quote == holdings_table[quote_key]
            quote_value ==
                IF quote_symbol \in DOMAIN limits
                THEN RMin(quote.volume_free, FromInt(limits[quote_symbol]))
                ELSE quote.volume_free
            base ==
                IF base_key \in DOMAIN holdings_table
                THEN holdings_table[base_key]
                ELSE Row(Zero, Zero, Zero)
            bought == transactions'[Len(transactions')]
        IN /\ Len(transactions') = Len(transactions) + 1
           /\ SubSeq(transactions', 1, Len(transactions)) = transactions
           /\ bought.exchange = exchange
           /\ bought.base_symbol = base_symbol
           /\ bought.quote_symbol = quote_symbol
           /\ bought.action = "buy_base"
           /\ bought.base_value = ask
           /\ bought.quote_value = quote_value
           /\ bought.quote_volume = quote_value
           /\ bought.fee_rate = 0
           /\ RMul(bought.base_volume, ask) = quote_value
           /\ holdings_table'[base_key] =
                  Row(RAdd(base.volume_free, bought.base_volume),
                      base.volume_used,
                      RAdd(base.volume_total, bought.base_volume))
           /\ holdings_table'[quote_key] =
                  Row(RSub(quote.volume_free, quote_value),
                      quote.volume_used,
                      RSub(quote.volume_total, quote_value))]_vars

\* C7 witness: with a free quote volume of MaxVol, a trade limit of TradeLimit
\* and an ask of 2, a base asset that was not held has been bought: TradeLimit
\* was spent for TradeLimit / 2 and the free quote volume is MaxVol - TradeLimit.
C7_Witness ==
    /\ ~Live
    /\ visit.decision = "buy"
    /\ visit.price = 2
    /\ exc = "none"
    /\ BaseKey \notin DOMAIN pre_table
    /\ pre_table[QuoteKey].volume_free = FromInt(MaxVol)
    /\ Split(visit.market_pair)[2] \in DOMAIN behaviour_config.trade_limits
    /\ Len(transactions) = 1
    /\ LastTransaction.quote_value = FromInt(TradeLimit)
    /\ LastTransaction.base_volume = Rat(TradeLimit, 2)
    /\ holdings_table[BaseKey].volume_free = Rat(TradeLimit, 2)
    /\ holdings_table[QuoteKey].volume_free = FromInt(MaxVol - TradeLimit)

\* C8 as claimed: a sell in simulation mode that finds a bid sells
\* base_volume = the free base volume, capped by the trade limit of the base
\* asset if one is configured, receives quote_volume = base_volume * bid, takes
\* base_volume from the free and total volume of the base Holding, adds
\* quote_volume to the free and total volume of the quote Holding, and appends
\* one Transaction sell_base.
C8_SimSell ==
    [][SimTradeStep("sell") =>
        LET exchange == visit'.exchange
            base_symbol == Split(visit'.market_pair)[1]
            quote_symbol == Split(visit'.market_pair)[2]
            base_key == <<exchange, base_symbol>>
            quote_key == <<exchange, quote_symbol>>
            bid == visit'.price
            limits == behaviour_config.trade_limits
            base == holdings_table[base_key]
            quote == holdings_table[quote_key]
            base_volume ==
                IF base_symbol \in DOMAIN limits
                THEN RMin(base.volume_free, FromInt(limits[base_symbol]))
                ELSE base.volume_free
            quote_volume == RMul(base_volume, bid)
            sold == transactions'[Len(transactions')]
        IN /\ Len(transactions') = Len(transactions) + 1
           /\ SubSeq(transactions', 1, Len(transactions)) = transactions
           /\ sold.action = "sell_base"
           /\ sold.base_volume = base_volume
           /\ sold.quote_volume = quote_volume
           /\ holdings_table'[base_key] =
                  Row(RSub(base.volume_free, base_volume),
                      base.volume_used,
                      RSub(base.volume_total, base_volume))
           /\ quote_key \in DOMAIN holdings_table'
           /\ holdings_table'[quote_key] =
                  Row(RAdd(quote.volume_free, quote_volume),
                      quote.volume_used,
                      RAdd(quote.volume_total, quote_volume))]_vars

\* C9: when buy finds no ask or sell finds no bid, no Transaction is appended,
\* no Holding is created or changed, and the cycle goes on with the next pair.
C9_EmptyBookNoOp ==
    [][(pc = "decide" /\ visit'.decision \in {"buy", "sell"} /\ visit'.price = 0) =>
        /\ holdings_table' = holdings_table
        /\ transactions' = transactions
        /\ exc' = "none"
        /\ pc' \in {"decide", "done"}]_vars

\* C9 witness: buy found no ask and the decision loop is at the next pair.
C9_Witness ==
    /\ visit.decision = "buy"
    /\ visit.price = 0
    /\ pc = "decide"
    /\ holdings_table = pre_table

\* C10: a hot pair whose base asset has volume_total > 0 in the ledger when
\* the pair is evaluated is not bought, whatever the quote balance is and
\* whatever trades the cycle has made before.
C10_NoRebuy ==
    (/\ Visited
     /\ visit.result.is_hot
     /\ BaseKey \in DOMAIN pre_table
     /\ RGreater(pre_table[BaseKey].volume_total, Zero))
        => visit.decision # "buy"

\* C10 witness: after a trade of the cycle, a hot pair whose base asset is
\* held was evaluated with free quote volume at hand, and was not bought.
C10_Witness ==
    /\ Visited
    /\ visit.result.is_hot
    /\ BaseKey \in DOMAIN pre_table
    /\ RGreater(pre_table[BaseKey].volume_total, Zero)
    /\ QuoteKey \in DOMAIN pre_table
    /\ RGreater(pre_table[QuoteKey].volume_free, Zero)
    /\ transactions # <<>>
    /\ visit.decision = "none"
    /\ exc = "none"

\* C11: in a mode other than live and with a holdings table that has rows, the
\* reconciliation step creates no Holding, updates no Holding and does not
\* read the exchange account; the snapshot the decision loop starts from is
\* the table as it was before the step.
C11_ReconcileKeepsLedger ==
    [][(/\ pc = "holdings"
        /\ behaviour_config.mode # "live"
        /\ DOMAIN holdings_table # {}) =>
           /\ holdings_table' = holdings_table
           /\ account_calls' = account_calls
           /\ user_account_markets' = user_account_markets
           /\ current_holdings' = __get_holdings(holdings_table)
           /\ pc' \in {"decide", "done"}]_vars

\* C11 witness: the reconciliation has kept a table of several rows and the
\* decision loop is at its first pair.
C11_Witness ==
    /\ reconciled = "kept"
    /\ behaviour_config.mode # "live"
    /\ Cardinality(DOMAIN holdings_table) >= 2
    /\ account_calls = 0
    /\ pc = "decide"
    /\ ~Visited
    /\ current_holdings = __get_holdings(holdings_table)

\* C12 as claimed: a pair for which neither the BUY condition nor the SELL
\* condition holds (a pair whose quote asset, base asset or exchange has no
\* Holding included) causes no Transaction and no Holding change, and the
\* decision loop goes on to the remaining pairs of the cycle.
C12_PassedOverPairHasNoEffect ==
    [][(pc = "decide" /\ ~BuyCondition' /\ ~SellCondition') =>
           /\ holdings_table' = holdings_table
           /\ transactions' = transactions
           /\ exc' = "none"
           /\ pc' \in {"decide", "done"}]_vars

\* the sum of the field amount over the transactions of log with the given
\* action whose asset in the given role ("base_symbol" or "quote_symbol") is
\* the asset of key
RECURSIVE Total(_, _, _, _, _)
Total(log, action, role, amount, key) ==
    IF log = <<>> THEN Zero
    ELSE LET tx == log[Len(log)]
             rest == Total(SubSeq(log, 1, Len(log) - 1), action, role, amount, key)
         IN IF tx.action = action /\ <<tx.exchange, tx[role]>> = key
            THEN RAdd(rest, tx[amount])
            ELSE rest

\* the free volume of an asset when the decision loop is entered
StartFree(key) ==
    IF key \in DOMAIN start_table THEN start_table[key].volume_free ELSE Zero

NonNegativeVolumes ==
    \A k \in DOMAIN holdings_table :
        /\ ~RGreater(Zero, holdings_table[k].volume_free)
        /\ ~RGreater(Zero, holdings_table[k].volume_used)

\* C13 as claimed: in simulation mode every Holding has volume_free >= 0 and
\* volume_used >= 0 after any sequence of buys and sells, and the quote
\* amount the buys of the cycle spent of an asset does not exceed its free
\* volume at the start of the cycle plus the proceeds of the cycle's sells.
C13_SpendingWithinStartPlusProceeds ==
    ~Live =>
        /\ NonNegativeVolumes
        /\ \A key \in Keys :
              ~RGreater(Total(transactions, "buy_base", "quote_symbol", "quote_value", key),
                        RAdd(StartFree(key),
                             Total(transactions, "sell_base", "quote_symbol", "quote_volume", key)))

\* C13 amended: in simulation mode every Holding has volume_free >= 0 and
\* volume_used >= 0 after any sequence of buys and sells, and the quote
\* amount the buys of the cycle spent of an asset does not exceed its free
\* volume at the start of the cycle plus the proceeds of the cycle's sells
\* plus the volume of that asset the cycle's buys acquired.
C13_SpendingWithinStartPlusIncome ==
    ~Live =>
        /\ NonNegativeVolumes
        /\ \A key \in Keys :
              ~RGreater(Total(transactions, "buy_base", "quote_symbol", "quote_value", key),
                        RAdd(RAdd(StartFree(key),
                                  Total(transactions, "sell_base", "quote_symbol", "quote_volume", key)),
                             Total(transactions, "buy_base", "base_symbol", "base_volume", key)))

\* C13 witness: in simulation mode BTC was bought with USDT and then spent on
\* ETH in the same cycle, more of it than was free at the start.
C13_Witness ==
    /\ ~Live
    /\ pc = "done"
    /\ Len(transactions) = 2
    /\ transactions[1].action = "buy_base"
    /\ transactions[1].base_symbol = "BTC"
    /\ transactions[2].action = "buy_base"
    /\ transactions[2].quote_symbol = "BTC"
    /\ RGreater(transactions[2].quote_value, StartFree(<<"bittrex", "BTC">>))
    /\ holdings_table[<<"bittrex", "BTC">>].volume_free = Zero

\* C14: when the holdings table has no rows at the reconciliation step, in
\* either mode, the account of every known exchange is read and the table
\* then holds exactly one row for every asset a report lists, carrying the
\* reported free, used and total volume; the decision loop starts from the
\* snapshot of that table.
C14_BootstrapFromAccounts ==
    [][(pc = "holdings" /\ DOMAIN holdings_table = {}) =>
           /\ DOMAIN user_account_markets' = Exchanges
           /\ DOMAIN holdings_table' =
                  {k \in Keys : k[2] \in DOMAIN user_account_markets'[k[1]]}
           /\ \A k \in DOMAIN holdings_table' :
                  holdings_table'[k] =
                      Row(user_account_markets'[k[1]][k[2]].volume_free,
                          user_account_markets'[k[1]][k[2]].volume_used,
                          user_account_markets'[k[1]][k[2]].volume_total)
           /\ current_holdings' = __get_holdings(holdings_table')
           /\ pc' \in {"decide", "done"}]_vars

\* C14 witness: the bootstrap has created rows from an account that reports
\* several assets, one of them with volume locked in orders, and the decision
\* loop is at its first pair.
C14_Witness ==
    /\ reconciled = "created"
    /\ Cardinality(DOMAIN holdings_table) >= 2
    /\ \E k \in DOMAIN holdings_table : holdings_table[k].volume_used # Zero
    /\ account_calls = Cardinality(Exchanges)
    /\ pc = "decide"
    /\ ~Visited

\* C15 as claimed: in live mode with a holdings table that has rows, the
\* reconciliation step overwrites the three volumes of every existing Holding
\* with the free, used and total volume the exchange reports for its
\* (exchange, symbol), and get_account_markets is called at most once for
\* each exchange.
C15_ResyncOverwritesEveryHolding ==
    [][(/\ pc = "holdings"
        /\ behaviour_config.mode = "live"
        /\ DOMAIN holdings_table # {}) =>
           /\ DOMAIN holdings_table' = DOMAIN holdings_table
           /\ \A k \in DOMAIN holdings_table :
                  /\ k[1] \in DOMAIN user_account_markets'
                  /\ k[2] \in DOMAIN user_account_markets'[k[1]]
                  /\ holdings_table'[k] =
                         Row(user_account_markets'[k[1]][k[2]].volume_free,
                             user_account_markets'[k[1]][k[2]].volume_used,
                             user_account_markets'[k[1]][k[2]].volume_total)
           /\ account_calls' <= Cardinality(Exchanges)]_vars

\* the pairs of an exchange that were classified without a network failure
Classified(exchange) ==
    {rsi_data[exchange][j][1] : j \in 1..Len(rsi_data[exchange])}

\* C16: a network failure while one pair is classified does not end the
\* cycle: the classification goes on with the next pair; the pairs handed to
\* the decision loop are exactly the pairs classified without failure, each
\* once; the decision loop evaluates only such pairs (so no Transaction and
\* no Holding change comes from the failed pair), one after the other, and
\* ends normally only after the last of them.
C16_NetworkFailureSkipsOnePair ==
    [][/\ (pc = "classify" /\ pi <= Len(market_data[ExchangeList[ei]])) =>
              /\ pc' = "classify"
              /\ exc' = "none"
              /\ ei' = ei
              /\ pi' = pi + 1
              /\ Classified(ExchangeList[ei])' \subseteq
                     Classified(ExchangeList[ei]) \cup {market_data[ExchangeList[ei]][pi]}
       /\ (pc = "classify" /\ pi > Len(market_data[ExchangeList[ei]])) =>
              /\ Len(rsi_sorted_pairs'[ExchangeList[ei]]) = Len(rsi_data[ExchangeList[ei]])
              /\ {rsi_sorted_pairs'[ExchangeList[ei]][j] :
                     j \in 1..Len(rsi_sorted_pairs'[ExchangeList[ei]])}
                    = Classified(ExchangeList[ei])
       /\ (pc = "holdings" /\ pc' = "decide") =>
              /\ pi' = 1
              /\ rsi_sorted_pairs' = rsi_sorted_pairs
       /\ (pc = "holdings" /\ pc' = "done") =>
              \A e \in Exchanges : rsi_sorted_pairs[e] = <<>>
       /\ pc = "decide" =>
              /\ visit'.market_pair = rsi_sorted_pairs[ExchangeList[ei]][pi]
              /\ visit'.market_pair \in Classified(ExchangeList[ei])
       /\ (pc = "decide" /\ pc' = "decide") =>
              /\ rsi_sorted_pairs' = rsi_sorted_pairs
              /\ \/ ei' = ei /\ pi' = pi + 1
                 \/ /\ ei' > ei
                    /\ pi' = 1
                    /\ pi = Len(rsi_sorted_pairs[ExchangeList[ei]])
       /\ (pc = "decide" /\ pc' = "done") =>
              /\ ei = Len(ExchangeList)
              /\ pi = Len(rsi_sorted_pairs[ExchangeList[ei]])]_vars

\* C16 witness: of the two pairs of the exchange one failed with a network
\* error and the other was classified, evaluated and bought; run has returned.
C16_Witness ==
    /\ pc = "done"
    /\ Len(market_data["bittrex"]) = 2
    /\ Len(rsi_data["bittrex"]) = 1
    /\ rsi_sorted_pairs["bittrex"] = <<visit.market_pair>>
    /\ visit.decision = "buy"
    /\ visit.price # 0
    /\ Len(transactions) = 1

\* C17 as claimed: the sweep calls cancel_order for an open order if and only
\* if the mode is live and the order has been open for longer than
\* open_order_max_hours; in any other mode no order is cancelled; in either
\* mode the cycle goes on to the reconciliation after the sweep.
C17_SweepCancelsStaleOrdersInLiveMode ==
    [][pc = "orders" =>
           /\ pc' = "holdings"
           /\ exc' = "none"
           /\ cancelled' =
                  IF behaviour_config.mode = "live"
                  THEN {open_orders'[i].id :
                           i \in {j \in 1..Len(open_orders') : open_orders'[j].stale}}
                  ELSE {}]_vars

\* the free volume of the row of key changed by delta; a row that does not
\* exist is taken as a row of volume zero
Credited(table, key, delta) ==
    IF key \in DOMAIN table
    THEN PutRow(table, key, Refreshed(table[key], RAdd(table[key].volume_free, delta)))
    ELSE PutRow(table, key, Row(delta, Zero, delta))

\* the effect of one Transaction on a holdings table
Replayed(table, tx) ==
    LET base_key == <<tx.exchange, tx.base_symbol>>
        quote_key == <<tx.exchange, tx.quote_symbol>>
    IN IF tx.action = "buy_base"
       THEN Credited(Credited(table, base_key, tx.base_volume),
                     quote_key, RSub(Zero, tx.quote_value))
       ELSE Credited(Credited(table, base_key, RSub(Zero, tx.base_volume)),
                     quote_key, tx.quote_volume)

RECURSIVE Replay(_, _)
Replay(table, log) ==
    IF log = <<>> THEN table
    ELSE Replayed(Replay(table, SubSeq(log, 1, Len(log) - 1)), log[Len(log)])

\* C18 as claimed: in simulation mode, when a cycle has ended, the holdings
\* table equals the table at the start of the decision loop with every
\* Transaction of the cycle replayed (buy_base: base free += base_volume,
\* quote free -= quote_value; sell_base: base free -= base_volume, quote
\* free += quote_volume), and no two Transactions are for the same pair.
C18_LedgerIsReplayOfLog ==
    (~Live /\ pc \in {"done", "raised"}) =>
        /\ holdings_table = Replay(start_table, transactions)
        /\ \A i, j \in 1..Len(transactions) :
              (/\ transactions[i].exchange = transactions[j].exchange
               /\ transactions[i].base_symbol = transactions[j].base_symbol
               /\ transactions[i].quote_symbol = transactions[j].quote_symbol) => i = j

\* C19: a decision step that calls buy or sell for a pair BASE/QUOTE on an
\* exchange leaves every Holding other than (exchange, BASE) and (exchange,
\* QUOTE) as it was, leaves the volume_used of those two as it was, and
\* removes no Holding: the only row it can add is the one of BASE.
C19_TradeFrame ==
    [][(pc = "decide" /\ visit'.decision \in {"buy", "sell"}) =>
        LET base_key == <<visit'.exchange, Split(visit'.market_pair)[1]>>
            quote_key == <<visit'.exchange, Split(visit'.market_pair)[2]>>
        IN /\ DOMAIN holdings_table \subseteq DOMAIN holdings_table'
           /\ DOMAIN holdings_table' \subseteq DOMAIN holdings_table \cup {base_key}
           /\ \A k \in DOMAIN holdings_table :
                  /\ k \notin {base_key, quote_key} => holdings_table'[k] = holdings_table[k]
                  /\ holdings_table'[k].volume_used = holdings_table[k].volume_used]_vars

\* C19 witness: a simulated sell has sold all of the free volume of an asset
\* that also has volume locked in orders; its row is still there with
\* volume_free zero, and the table has a row of a third asset.
C19_Witness ==
    /\ ~Live
    /\ visit.decision = "sell"
    /\ visit.price # 0
    /\ exc = "none"
    /\ BaseKey \in DOMAIN holdings_table
    /\ holdings_table[BaseKey].volume_free = Zero
    /\ holdings_table[BaseKey].volume_used # Zero
    /\ pre_table[BaseKey].volume_free # Zero
    /\ holdings_table[QuoteKey] # pre_table[QuoteKey]
    /\ \E k \in DOMAIN holdings_table : k \notin {BaseKey, QuoteKey}

\* C20: a pair classified hot is never sold in the cycle, not even when it
\* is also classified cold, its base asset is held with non-zero free volume
\* and the guard of buy fails.
C20_HotPairIsNeverSold ==
    /\ (Visited /\ visit.result.is_hot) => visit.decision # "sell"
    /\ \A i \in 1..Len(transactions) :
          (/\ transactions[i].action = "sell_base"
           /\ pc \in {"decide", "done"}) =>
              LET pair == CHOOSE p \in Pairs :
                              Split(p) = <<transactions[i].base_symbol,
                                           transactions[i].quote_symbol>>
              IN ~ResultOf(transactions[i].exchange, pair).is_hot

\* C20 witness: a pair classified hot and cold, whose base asset is held
\* with non-zero free volume so that the guard of buy fails, was passed over
\* without an exception.
C20_Witness ==
    /\ Visited
    /\ visit.result.is_hot
    /\ visit.result.is_cold
    /\ BaseKey \in DOMAIN pre_table
    /\ pre_table[BaseKey].volume_free # Zero
    /\ QuoteKey \in DOMAIN pre_table
    /\ visit.decision = "none"
    /\ exc = "none"
    /\ holdings_table = pre_table

====
